---------------------------- MODULE Spec2Model ----------------------------
(***************************************************************************)
(* Customers service (src/src/index.js): the five request handlers of the  *)
(* customers API over a relational store (the customers table) and a       *)
(* cache-aside layer (redis).                                               *)
(*                                                                         *)
(* Strings are sequences of one-character strings, so that the cache keys   *)
(* built by template literals are compared exactly as the program compares  *)
(* them: "customer:1:1:b" is one key whatever inputs produced it.           *)
(* Each handler runs as a process that takes one step per awaited call;     *)
(* the synchronous prefix of a handler (validation, key construction) is    *)
(* part of the step of its first awaited call.                              *)
(***************************************************************************)
EXTENDS Integers, Sequences, FiniteSets, TLC

VARIABLES store,    \* the customers table: a sequence of rows, in insertion order
          nextId,   \* the id the store gives to the next inserted row
          now,      \* the store's clock (CURRENT_TIMESTAMP)
          cache,    \* redis: a function from keys to [val, ttl]
          redisUp,  \* whether redis calls succeed
          pc,       \* per process: the handler's position
          req,      \* per process: the request being served
          loc,      \* per process: the handler's local variables
          resp,     \* per process: the response sent for req
          acc,      \* per process: what the request has accessed and done so far
          nreq,     \* requests begun so far
          lastp,    \* the process whose request completed most recently
          alone,    \* per process: no other request began since this one began
          after,    \* per process: the request that had completed last when this one began
          first     \* per cached key: the value that populated it, and whether it was overwritten

vars == <<store, nextId, now, cache, redisUp, pc, req, loc, resp, acc, nreq,
          lastp, alone, after, first>>

----------------------------------------------------------------------------
(* Bounds of the model *)

\* requests begun in one behaviour of Spec
MaxReq == 3
\* requests begun in one behaviour of SpecList, SpecFault, SpecTime, SpecUpdate
MaxReqList == 3
MaxReqFault == 3
MaxReqTime == 4
MaxReqUpdate == 3

\* the handlers that may run at once; they are interchangeable, and a new
\* request is given to the first that is free
Procs == {1, 2}

----------------------------------------------------------------------------
(* Values *)

\* JavaScript's undefined (an absent query parameter or body field)
UNDEF == <<"undefined">>
\* SQL NULL / JSON null
NULL == <<"null">>

S_customers == <<"c","u","s","t","o","m","e","r","s">>
S_customer == <<"c","u","s","t","o","m","e","r">>
S_stats == <<"s","t","a","t","s">>
S_all == <<"a","l","l">>
Colon == <<":">>
Star == <<"*">>

\* !x for a string-valued input: undefined and the empty string are falsy
Falsy(x) == x = UNDEF \/ x = <<>>

\* `${x}`: template interpolation of a string or of undefined
Interp(x) == IF x = UNDEF THEN <<"u","n","d","e","f","i","n","e","d">> ELSE x

Digits == <<"0","1","2","3","4","5","6","7","8","9">>
IsDigit(c) == \E i \in 1..10 : Digits[i] = c
DigitVal(c) == (CHOOSE i \in 1..10 : Digits[i] = c) - 1

\* a JavaScript number: an integer, or the not-a-number result of parseInt
NaN == [nan |-> TRUE, val |-> 0]
Num(n) == [nan |-> FALSE, val |-> n]

RECURSIVE DigitPrefix(_, _)
\* the value of the longest prefix of digits of s, read after the digits valued acc
DigitPrefix(s, a) ==
    IF s = <<>> \/ ~IsDigit(Head(s)) THEN a
    ELSE DigitPrefix(Tail(s), a * 10 + DigitVal(Head(s)))

RECURSIVE SkipSpaces(_)
SkipSpaces(s) == IF s # <<>> /\ Head(s) = " " THEN SkipSpaces(Tail(s)) ELSE s

\* parseInt(s) for a string s: leading blanks, an optional sign, then the
\* longest prefix of digits; NaN when there is no digit
ParseInt(s) ==
    LET t == SkipSpaces(s)
        neg == t # <<>> /\ Head(t) = "-"
        u == IF t # <<>> /\ Head(t) \in {"-", "+"} THEN Tail(t) ELSE t
    IN IF u = <<>> \/ ~IsDigit(Head(u)) THEN NaN
       ELSE IF neg THEN Num(0 - DigitPrefix(u, 0)) ELSE Num(DigitPrefix(u, 0))

RECURSIVE NatStr(_)
\* the decimal text of a natural number
NatStr(n) == IF n < 10 THEN <<Digits[n + 1]>> ELSE NatStr(n \div 10) \o <<Digits[(n % 10) + 1]>>

\* lower-casing, as ILIKE folds case
Lower(c) ==
    CASE c = "A" -> "a"
      [] c = "B" -> "b"
      [] c = "L" -> "l"
      [] OTHER -> c

RECURSIVE Like(_, _)
\* s ILIKE p: % matches any run of characters, _ any one character, any other
\* character itself up to case
Like(p, s) ==
    IF p = <<>> THEN s = <<>>
    ELSE IF Head(p) = "%" THEN Like(Tail(p), s) \/ (s # <<>> /\ Like(p, Tail(s)))
    ELSE /\ s # <<>>
         /\ (Head(p) = "_" \/ Lower(Head(p)) = Lower(Head(s)))
         /\ Like(Tail(p), Tail(s))

\* `%${search}%`
Pattern(search) == <<"%">> \o search \o <<"%">>

\* column ILIKE pattern, where a NULL column matches nothing
ColLike(col, p) == col # NULL /\ Like(p, col)

\* bcrypt.hash(password, 10): an opaque digest of the password
Hash(password) == <<"$2a$">> \o password

\* JSON.stringify(address) as a statement parameter: undefined is sent as NULL
JsonParam(v) == IF v = UNDEF THEN NULL ELSE <<"{">> \o v \o <<"}">>

\* a statement parameter: undefined is sent as NULL
Param(v) == IF v = UNDEF THEN NULL ELSE v

----------------------------------------------------------------------------
(* Cache keys and time-to-live *)

\* the list handler's defaults for limit and offset, as interpolated and parsed
DefaultLimit == <<"5","0">>
DefaultOffset == <<"0">>

ListTTL == 60
CustomerTTL == 300
StatsTTL == 120

\* const { limit = 50 } = req.query: the default replaces undefined only
OrDefault(x, d) == IF x = UNDEF THEN d ELSE x

\* `customers:${tenant_id}:${search || 'all'}:${limit}:${offset}`
ListKey(tenant_id, search, limit, offset) ==
    S_customers \o Colon \o Interp(tenant_id) \o Colon
       \o (IF Falsy(search) THEN S_all ELSE search) \o Colon
       \o Interp(OrDefault(limit, DefaultLimit)) \o Colon
       \o Interp(OrDefault(offset, DefaultOffset))

\* `customer:${id}:${tenant_id}`
CustomerKey(id, tenant_id) ==
    S_customer \o Colon \o Interp(id) \o Colon \o Interp(tenant_id)

\* `customers:stats:${tenant_id}`
StatsKey(tenant_id) == S_customers \o Colon \o S_stats \o Colon \o Interp(tenant_id)

\* `customers:${tenant_id}:*`, the key the write handlers delete
ListWildcard(tenant_id) == S_customers \o Colon \o Interp(tenant_id) \o Colon \o Star

\* redis.get(key): the value, or null when the key is absent
RedisGet(c, key) ==
    IF key \in DOMAIN c THEN [null |-> FALSE, val |-> c[key].val]
    ELSE [null |-> TRUE, val |-> NULL]

\* the test of the cached value always failing
HitNever(cached) == FALSE

\* if (cached): a value was found
Hit(cached) == ~cached.null

\* the entry written with no time-to-live, as redis.set(key, value) does
RedisSetNoTTL(c, key, ttl, value) ==
    [k \in DOMAIN c \cup {key} |-> IF k = key THEN [val |-> value, ttl |-> 0] ELSE c[k]]

\* redis.setex(key, ttl, value)
RedisSetex(c, key, ttl, value) ==
    [k \in DOMAIN c \cup {key} |-> IF k = key THEN [val |-> value, ttl |-> ttl] ELSE c[k]]

\* redis.del(key): DEL removes the key named by its argument, taken literally
RedisDel(c, key) == [k \in DOMAIN c \ {key} |-> c[k]]

----------------------------------------------------------------------------
(* The store's statements *)

RECURSIVE NewestFirst(_)
\* ORDER BY created_at DESC
NewestFirst(rows) ==
    IF rows = <<>> THEN <<>>
    ELSE LET i == CHOOSE i \in 1..Len(rows) :
                     \A j \in 1..Len(rows) :
                        \/ rows[j].created_at < rows[i].created_at
                        \/ (rows[j].created_at = rows[i].created_at /\ i <= j)
             rest == [k \in 1..(Len(rows) - 1) |-> IF k < i THEN rows[k] ELSE rows[k + 1]]
         IN <<rows[i]>> \o NewestFirst(rest)

\* LIMIT limit OFFSET offset over a result
Page(rows, limit, offset) ==
    LET last == IF offset + limit < Len(rows) THEN offset + limit ELSE Len(rows)
    IN SubSeq(rows, offset + 1, last)

\* the store rejects a LIMIT or OFFSET that is not a non-negative integer
BadPaging(limit, offset) == limit.nan \/ offset.nan \/ limit.val < 0 \/ offset.val < 0

\* WHERE tenant_id = $1 [AND (email ILIKE $2 OR full_name ILIKE $2)]
ListWhere(row, tenant_id, search) ==
    /\ row.tenant_id = tenant_id
    /\ Falsy(search) \/ ColLike(row.email, Pattern(search))
                     \/ ColLike(row.full_name, Pattern(search))

ListColumns(row) ==
    [id |-> row.id, email |-> row.email, full_name |-> row.full_name,
     phone |-> row.phone, address |-> row.address,
     created_at |-> row.created_at, updated_at |-> row.updated_at]

\* SELECT id, email, ... FROM customers WHERE ... ORDER BY created_at DESC LIMIT OFFSET
SelectList(rows, tenant_id, search, limit, offset) ==
    LET Test(row) == ListWhere(row, tenant_id, search)
        hits == NewestFirst(SelectSeq(rows, Test))
        page == Page(hits, limit, offset)
    IN [k \in 1..Len(page) |-> ListColumns(page[k])]

\* SELECT COUNT(*) FROM customers WHERE ...
SelectCount(rows, tenant_id, search) ==
    LET Test(row) == ListWhere(row, tenant_id, search)
    IN Len(SelectSeq(rows, Test))

CustomerColumns(row) ==
    [id |-> row.id, email |-> row.email, full_name |-> row.full_name,
     phone |-> row.phone, address |-> row.address,
     loyalty_points |-> row.loyalty_points,
     created_at |-> row.created_at, updated_at |-> row.updated_at]

\* SELECT ... FROM customers WHERE id = $1 AND tenant_id = $2
SelectCustomer(rows, id, tenant_id) ==
    LET Test(row) == row.id = id /\ row.tenant_id = tenant_id
        hits == SelectSeq(rows, Test)
    IN [k \in 1..Len(hits) |-> CustomerColumns(hits[k])]

\* the pre-check with its two parameters in the wrong order
SelectExistingSwapped(rows, tenant_id, email) ==
    LET Test(row) == row.tenant_id = email /\ row.email = tenant_id
    IN SelectSeq(rows, Test)

\* SELECT id FROM customers WHERE tenant_id = $1 AND email = $2
SelectExisting(rows, tenant_id, email) ==
    LET Test(row) == row.tenant_id = tenant_id /\ row.email = email
    IN SelectSeq(rows, Test)

\* the row INSERT INTO customers (...) VALUES (...) adds; the store gives the
\* id and the timestamps, and loyalty_points takes the column's default
NewRow(id, r, t) ==
    [id |-> NatStr(id), tenant_id |-> r.tenant_id, email |-> r.email,
     password_hash |-> Hash(r.password), full_name |-> Param(r.full_name),
     phone |-> Param(r.phone), address |-> JsonParam(r.address),
     loyalty_points |-> 0, created_at |-> t, updated_at |-> t]

\* RETURNING id, email, full_name, phone, address, created_at
InsertColumns(row) ==
    [id |-> row.id, email |-> row.email, full_name |-> row.full_name,
     phone |-> row.phone, address |-> row.address, created_at |-> row.created_at]

RECURSIVE Sum(_)
Sum(ns) == IF ns = <<>> THEN 0 ELSE Head(ns) + Sum(Tail(ns))

\* SELECT COUNT(*), SUM(loyalty_points), AVG(loyalty_points) ... WHERE tenant_id = $1
\* (SUM and AVG of no rows are NULL; the average is kept as sum over count)
SelectStats(rows, tenant_id) ==
    LET Test(row) == row.tenant_id = tenant_id
        hits == SelectSeq(rows, Test)
        pts == [k \in 1..Len(hits) |-> hits[k].loyalty_points]
    IN [total_customers |-> Len(hits),
        total_loyalty_points |-> IF hits = <<>> THEN NULL ELSE <<Sum(pts)>>,
        avg_loyalty_points |-> IF hits = <<>> THEN NULL ELSE <<Sum(pts), Len(hits)>>]

----------------------------------------------------------------------------
(* Requests, responses and the bookkeeping of a handler *)

NoReq == [op |-> "none"]
NoResp == [status |-> 0, body |-> NULL]
NoLoc == [at |-> "none"]
None == [op |-> "none", status |-> 0, tenant_id |-> UNDEF, email |-> UNDEF, id |-> UNDEF]

InFlight(p) == pc[p] \notin {"idle", "done"}

\* no request is being served
Quiet == \A q \in Procs : ~InFlight(q)

\* what is remembered of a completed request
Summary(r, status) ==
    [op |-> r.op, status |-> status,
     tenant_id |-> IF r.op = "none" THEN UNDEF ELSE r.tenant_id,
     email |-> IF r.op = "create" THEN r.email ELSE UNDEF,
     id |-> IF r.op \in {"get", "update"} THEN r.id ELSE UNDEF]

\* the request that completed most recently
LastDone == IF lastp = 0 THEN None ELSE Summary(req[lastp], resp[lastp].status)

\* process p takes up request r
Take(p, r) ==
    /\ ~InFlight(p)
    /\ \A q \in Procs : q < p => InFlight(q)
    /\ nreq' = nreq + 1
    /\ req' = [req EXCEPT ![p] = r]
    /\ alone' = [q \in Procs |-> q = p /\ Quiet]
    /\ after' = [after EXCEPT ![p] = IF Quiet THEN LastDone ELSE None]

\* res.status(status).json(body): the handler of p ends
Reply(p, status, body) ==
    /\ pc' = [pc EXCEPT ![p] = "done"]
    /\ resp' = [resp EXCEPT ![p] = [status |-> status, body |-> body]]
    /\ loc' = [loc EXCEPT ![p] = NoLoc]
    /\ lastp' = p

\* the handler of p goes on to its next awaited call
Goto(p, label, l) ==
    /\ pc' = [pc EXCEPT ![p] = label]
    /\ loc' = [loc EXCEPT ![p] = l]
    /\ resp' = [resp EXCEPT ![p] = NoResp]
    /\ UNCHANGED lastp

\* p's request has accessed the resources in rs ("store", "cache"), a call
\* of it was rejected ("store_error", "cache_error"), or a statement of it
\* changed the store ("mutation")
Touch(p, rs) == acc' = [acc EXCEPT ![p] = @ \cup rs]
Touched(p, rs) == acc' = [acc EXCEPT ![p] = rs]

\* what a redis call adds to the resources accessed: the cache, and the
\* rejection of the call when redis is unreachable
RedisCall == IF redisUp THEN {"cache"} ELSE {"cache", "cache_error"}

Error(msg) == [error |-> msg]

\* the record of what populated each key, after the cache went from c to d: a
\* key that is gone is forgotten, a new key records its value, and a key
\* whose value was replaced by another is marked
Observed(f, c, d) ==
    [k \in DOMAIN d |->
        IF k \notin DOMAIN c THEN [val |-> d[k].val, overwritten |-> FALSE]
        ELSE IF d[k].val = c[k].val THEN f[k]
        ELSE [f[k] EXCEPT !.overwritten = TRUE]]

\* redis is left as it is
CacheUnchanged == UNCHANGED <<cache, first>>

\* redis goes to d
CacheBecomes(d) == cache' = d /\ first' = Observed(first, cache, d)

Init ==
    /\ store = <<>>
    /\ nextId = 1
    /\ now = 1
    /\ cache = <<>>
    /\ redisUp = TRUE
    /\ pc = [p \in Procs |-> "idle"]
    /\ req = [p \in Procs |-> NoReq]
    /\ loc = [p \in Procs |-> NoLoc]
    /\ resp = [p \in Procs |-> NoResp]
    /\ acc = [p \in Procs |-> {}]
    /\ nreq = 0
    /\ lastp = 0
    /\ alone = [p \in Procs |-> FALSE]
    /\ after = [p \in Procs |-> None]
    /\ first = <<>>

----------------------------------------------------------------------------
(* POST /api/customers *)

\* the validation of a create request without the test of the password
CreateInvalidNoPassword(r) == Falsy(r.tenant_id) \/ Falsy(r.email)

\* if (!tenant_id || !email || !password)
CreateInvalid(r) == Falsy(r.tenant_id) \/ Falsy(r.email) \/ Falsy(r.password)

\* validation, then the pre-check query
CreateBegin(p, r) ==
    /\ r.op = "create"
    /\ Take(p, r)
    /\ UNCHANGED <<store, nextId, now, cache, redisUp, first>>
    /\ IF CreateInvalid(r)
       THEN /\ Reply(p, 400, Error("tenant_id, email, and password are required"))
            /\ Touched(p, {})
       ELSE /\ Touched(p, {"store"})
            /\ IF Len(SelectExisting(store, r.tenant_id, r.email)) > 0
               THEN Reply(p, 409, Error("Customer already exists"))
               ELSE Goto(p, "create_insert", [at |-> "create", hash |-> Hash(r.password)])

\* the INSERT ... RETURNING
CreateInsert(p) ==
    /\ pc[p] = "create_insert"
    /\ LET row == NewRow(nextId, req[p], now)
       IN /\ store' = Append(store, row)
          /\ Goto(p, "create_del", [at |-> "create", row |-> InsertColumns(row)])
    /\ Touch(p, {"mutation"})
    /\ nextId' = nextId + 1
    /\ now' = now + 1
    /\ UNCHANGED <<cache, redisUp, req, nreq, alone, after, first>>

\* redis.del of the tenant's list pattern, then the 201 response
CreateDel(p) ==
    /\ pc[p] = "create_del"
    /\ Touch(p, RedisCall)
    /\ IF redisUp
       THEN /\ CacheBecomes(RedisDel(cache, ListWildcard(req[p].tenant_id)))
            /\ Reply(p, 201, loc[p].row)
       ELSE /\ CacheUnchanged
            /\ Reply(p, 500, Error("Failed to create customer"))
    /\ UNCHANGED <<store, nextId, now, redisUp, req, nreq, alone, after>>

----------------------------------------------------------------------------
(* GET /api/customers *)

\* validation, then redis.get of the page's key
ListBegin(p, r) ==
    /\ r.op = "list"
    /\ Take(p, r)
    /\ UNCHANGED <<store, nextId, now, cache, redisUp, first>>
    /\ IF Falsy(r.tenant_id)
       THEN /\ Reply(p, 400, Error("tenant_id is required"))
            /\ Touched(p, {})
       ELSE /\ Touched(p, RedisCall)
            /\ LET cached == RedisGet(cache, ListKey(r.tenant_id, r.search, r.limit, r.offset))
               IN IF ~redisUp THEN Reply(p, 500, Error("Failed to fetch customers"))
                  ELSE IF Hit(cached) THEN Reply(p, 200, cached.val)
                  ELSE Goto(p, "list_select", [at |-> "list"])

\* the SELECT of the page
ListSelect(p) ==
    /\ pc[p] = "list_select"
    /\ Touch(p, {"store"})
    /\ LET r == req[p]
           limit == ParseInt(OrDefault(r.limit, DefaultLimit))
           offset == ParseInt(OrDefault(r.offset, DefaultOffset))
       IN IF BadPaging(limit, offset)
          THEN Reply(p, 500, Error("Failed to fetch customers"))
          ELSE Goto(p, "list_count",
                    [at |-> "list", limit |-> limit, offset |-> offset,
                     rows |-> SelectList(store, r.tenant_id, r.search, limit.val, offset.val)])
    /\ UNCHANGED <<store, nextId, now, cache, redisUp, req, nreq, alone, after, first>>

\* the SELECT COUNT(*)
ListCount(p) ==
    /\ pc[p] = "list_count"
    /\ Goto(p, "list_setex",
            [at |-> "list",
             response |-> [customers |-> loc[p].rows,
                           total |-> SelectCount(store, req[p].tenant_id, req[p].search),
                           limit |-> loc[p].limit, offset |-> loc[p].offset]])
    /\ UNCHANGED <<store, nextId, now, cache, redisUp, req, acc, nreq, alone, after, first>>

\* redis.setex of the response, then the response
ListSetex(p) ==
    /\ pc[p] = "list_setex"
    /\ Touch(p, RedisCall)
    /\ LET r == req[p]
       IN IF redisUp
          THEN /\ CacheBecomes(RedisSetex(cache, ListKey(r.tenant_id, r.search, r.limit, r.offset),
                                      ListTTL, loc[p].response))
               /\ Reply(p, 200, loc[p].response)
          ELSE /\ CacheUnchanged
               /\ Reply(p, 500, Error("Failed to fetch customers"))
    /\ UNCHANGED <<store, nextId, now, redisUp, req, nreq, alone, after>>

----------------------------------------------------------------------------
(* GET /api/customers/:id *)

\* validation, then redis.get of the customer's key
GetBegin(p, r) ==
    /\ r.op = "get"
    /\ Take(p, r)
    /\ UNCHANGED <<store, nextId, now, cache, redisUp, first>>
    /\ IF Falsy(r.tenant_id)
       THEN /\ Reply(p, 400, Error("tenant_id is required"))
            /\ Touched(p, {})
       ELSE /\ Touched(p, RedisCall)
            /\ LET cached == RedisGet(cache, CustomerKey(r.id, r.tenant_id))
               IN IF ~redisUp THEN Reply(p, 500, Error("Failed to fetch customer"))
                  ELSE IF Hit(cached) THEN Reply(p, 200, cached.val)
                  ELSE Goto(p, "get_select", [at |-> "get"])

\* the test of the selected rows never finding them empty
NotFoundNever(rows) == FALSE

\* if (result.rows.length === 0)
NotFound(rows) == Len(rows) = 0

\* the SELECT by id and tenant_id
GetSelect(p) ==
    /\ pc[p] = "get_select"
    /\ Touch(p, {"store"})
    /\ LET rows == SelectCustomer(store, req[p].id, req[p].tenant_id)
       IN IF NotFound(rows)
          THEN Reply(p, 404, Error("Customer not found"))
          ELSE Goto(p, "get_setex",
                    [at |-> "get", row |-> IF Len(rows) = 0 THEN UNDEF ELSE rows[1]])
    /\ UNCHANGED <<store, nextId, now, cache, redisUp, req, nreq, alone, after, first>>

\* redis.setex of the row, then the response
GetSetex(p) ==
    /\ pc[p] = "get_setex"
    /\ Touch(p, RedisCall)
    /\ IF redisUp
       THEN /\ CacheBecomes(RedisSetex(cache, CustomerKey(req[p].id, req[p].tenant_id),
                                   CustomerTTL, loc[p].row))
            /\ Reply(p, 200, loc[p].row)
       ELSE /\ CacheUnchanged
            /\ Reply(p, 500, Error("Failed to fetch customer"))
    /\ UNCHANGED <<store, nextId, now, redisUp, req, nreq, alone, after>>

----------------------------------------------------------------------------
(* PUT /api/customers/:id *)

\* one "column = $n" of the SET list, with its parameter
Assign(body, col, val) == IF col \in DOMAIN body THEN <<[col |-> col, val |-> val]>> ELSE <<>>

\* the updates collected with the phone assigned whether supplied or not
UpdatesAlwaysPhone(body) ==
    Assign(body, "full_name", IF "full_name" \in DOMAIN body THEN body.full_name ELSE NULL)
    \o <<[col |-> "phone", val |-> IF "phone" \in DOMAIN body THEN body.phone ELSE NULL]>>
    \o Assign(body, "address", IF "address" \in DOMAIN body THEN JsonParam(body.address) ELSE NULL)
    \o Assign(body, "loyalty_points",
              IF "loyalty_points" \in DOMAIN body THEN body.loyalty_points ELSE NULL)

\* the updates the handler collects from the body, in the handler's order
Updates(body) ==
    Assign(body, "full_name", IF "full_name" \in DOMAIN body THEN body.full_name ELSE NULL)
    \o Assign(body, "phone", IF "phone" \in DOMAIN body THEN body.phone ELSE NULL)
    \o Assign(body, "address", IF "address" \in DOMAIN body THEN JsonParam(body.address) ELSE NULL)
    \o Assign(body, "loyalty_points",
              IF "loyalty_points" \in DOMAIN body THEN body.loyalty_points ELSE NULL)

RECURSIVE SetColumns(_, _)
\* SET applied to one row
SetColumns(row, updates) ==
    IF updates = <<>> THEN row
    ELSE SetColumns([row EXCEPT ![Head(updates).col] = Head(updates).val], Tail(updates))

\* the UPDATE with no tenant_id in its WHERE clause
UpdateRowsAnyTenant(rows, updates, id, tenant_id, t) ==
    [k \in 1..Len(rows) |->
        IF rows[k].id = id
        THEN [SetColumns(rows[k], updates) EXCEPT !.updated_at = t]
        ELSE rows[k]]

\* UPDATE customers SET ..., updated_at = CURRENT_TIMESTAMP WHERE id = $ AND tenant_id = $
UpdateRows(rows, updates, id, tenant_id, t) ==
    [k \in 1..Len(rows) |->
        IF rows[k].id = id /\ rows[k].tenant_id = tenant_id
        THEN [SetColumns(rows[k], updates) EXCEPT !.updated_at = t]
        ELSE rows[k]]

\* RETURNING id, email, full_name, phone, address, loyalty_points, updated_at
UpdateColumns(row) ==
    [id |-> row.id, email |-> row.email, full_name |-> row.full_name,
     phone |-> row.phone, address |-> row.address,
     loyalty_points |-> row.loyalty_points, updated_at |-> row.updated_at]

\* the test of the returned rows never finding them empty
NoRowNever(hit) == FALSE

\* if (result.rows.length === 0)
NoRow(hit) == hit = {}

\* validation, the construction of the statement, then the UPDATE ... RETURNING
UpdateBegin(p, r) ==
    /\ r.op = "update"
    /\ Take(p, r)
    /\ UNCHANGED <<nextId, cache, redisUp, first>>
    /\ IF Falsy(r.tenant_id)
       THEN /\ Reply(p, 400, Error("tenant_id is required"))
            /\ Touched(p, {})
            /\ UNCHANGED <<store, now>>
       ELSE IF Len(Updates(r.body)) = 0
       THEN /\ Reply(p, 400, Error("No fields to update"))
            /\ Touched(p, {})
            /\ UNCHANGED <<store, now>>
       ELSE LET hit == {k \in 1..Len(store) :
                            store[k].id = r.id /\ store[k].tenant_id = r.tenant_id}
                rows == UpdateRows(store, Updates(r.body), r.id, r.tenant_id, now)
            IN /\ Touched(p, IF hit = {} THEN {"store"} ELSE {"store", "mutation"})
               /\ store' = rows
               /\ IF NoRow(hit)
                  THEN /\ Reply(p, 404, Error("Customer not found"))
                       /\ UNCHANGED now
                  ELSE /\ Goto(p, "update_del_one",
                               [at |-> "update",
                                row |-> IF hit = {} THEN UNDEF
                                        ELSE UpdateColumns(rows[CHOOSE k \in hit : TRUE])])
                       /\ now' = now + 1

\* the deleted key with id and tenant_id in the wrong order
UpdateKeySwapped(r) == CustomerKey(r.tenant_id, r.id)

\* `customer:${id}:${tenant_id}`, the key the update handler deletes
UpdateKey(r) == CustomerKey(r.id, r.tenant_id)

\* redis.del of the customer's key
UpdateDelOne(p) ==
    /\ pc[p] = "update_del_one"
    /\ Touch(p, RedisCall)
    /\ IF redisUp
       THEN /\ CacheBecomes(RedisDel(cache, UpdateKey(req[p])))
            /\ Goto(p, "update_del_list", loc[p])
       ELSE /\ CacheUnchanged
            /\ Reply(p, 500, Error("Failed to update customer"))
    /\ UNCHANGED <<store, nextId, now, redisUp, req, nreq, alone, after>>

\* redis.del of the tenant's list pattern, then the response
UpdateDelList(p) ==
    /\ pc[p] = "update_del_list"
    /\ Touch(p, RedisCall)
    /\ IF redisUp
       THEN /\ CacheBecomes(RedisDel(cache, ListWildcard(req[p].tenant_id)))
            /\ Reply(p, 200, loc[p].row)
       ELSE /\ CacheUnchanged
            /\ Reply(p, 500, Error("Failed to update customer"))
    /\ UNCHANGED <<store, nextId, now, redisUp, req, nreq, alone, after>>

----------------------------------------------------------------------------
(* GET /api/customers/stats/:tenant_id *)

\* redis.get of the tenant's stats key
StatsBegin(p, r) ==
    /\ r.op = "stats"
    /\ Take(p, r)
    /\ UNCHANGED <<store, nextId, now, cache, redisUp, first>>
    /\ Touched(p, RedisCall)
    /\ LET cached == RedisGet(cache, StatsKey(r.tenant_id))
       IN IF ~redisUp THEN Reply(p, 500, Error("Failed to fetch customer stats"))
          ELSE IF Hit(cached) THEN Reply(p, 200, cached.val)
          ELSE Goto(p, "stats_select", [at |-> "stats"])

\* the aggregate SELECT
StatsSelect(p) ==
    /\ pc[p] = "stats_select"
    /\ Touch(p, {"store"})
    /\ Goto(p, "stats_setex", [at |-> "stats", row |-> SelectStats(store, req[p].tenant_id)])
    /\ UNCHANGED <<store, nextId, now, cache, redisUp, req, nreq, alone, after, first>>

\* redis.setex of the aggregate, then the response
StatsSetex(p) ==
    /\ pc[p] = "stats_setex"
    /\ Touch(p, RedisCall)
    /\ IF redisUp
       THEN /\ CacheBecomes(RedisSetex(cache, StatsKey(req[p].tenant_id), StatsTTL, loc[p].row))
            /\ Reply(p, 200, loc[p].row)
       ELSE /\ CacheUnchanged
            /\ Reply(p, 500, Error("Failed to fetch customer stats"))
    /\ UNCHANGED <<store, nextId, now, redisUp, req, nreq, alone, after>>

----------------------------------------------------------------------------
(* The environment *)

\* the phone number an out-of-band statement writes
OutOfBandPhone == <<"9">>

\* a row of the store is changed by a statement that does not come from the service
OutOfBand(k) ==
    /\ k \in 1..Len(store)
    /\ store[k].phone # OutOfBandPhone
    /\ store' = [store EXCEPT ![k].phone = OutOfBandPhone]
    /\ UNCHANGED <<nextId, now, cache, redisUp, pc, req, loc, resp, acc, nreq,
                   lastp, alone, after, first>>

\* an entry's time-to-live runs out; an entry written with none stays
Expire(key) ==
    /\ key \in DOMAIN cache
    /\ cache[key].ttl > 0
    /\ CacheBecomes(RedisDel(cache, key))
    /\ UNCHANGED <<store, nextId, now, redisUp, pc, req, loc, resp, acc, nreq,
                   lastp, alone, after>>

\* redis becomes unreachable: its calls reject
RedisFails ==
    /\ redisUp
    /\ redisUp' = FALSE
    /\ UNCHANGED <<store, nextId, now, cache, pc, req, loc, resp, acc, nreq,
                   lastp, alone, after, first>>

\* redis is reachable again
RedisRecovers ==
    /\ ~redisUp
    /\ redisUp' = TRUE
    /\ UNCHANGED <<store, nextId, now, cache, pc, req, loc, resp, acc, nreq,
                   lastp, alone, after, first>>

\* the pre-check of a create is rejected by the store: the handler's catch
\* answers 500
CreateCheckFails(p, r) ==
    /\ r.op = "create"
    /\ ~CreateInvalid(r)
    /\ Take(p, r)
    /\ Touched(p, {"store", "store_error"})
    /\ Reply(p, 500, Error("Failed to create customer"))
    /\ UNCHANGED <<store, nextId, now, cache, redisUp, first>>

\* the INSERT is rejected by the store
CreateInsertFails(p) ==
    /\ pc[p] = "create_insert"
    /\ Touch(p, {"store_error"})
    /\ Reply(p, 500, Error("Failed to create customer"))
    /\ UNCHANGED <<store, nextId, now, cache, redisUp, req, nreq, alone, after, first>>

\* the UPDATE is rejected by the store
UpdateFails(p, r) ==
    /\ r.op = "update"
    /\ ~Falsy(r.tenant_id) /\ Len(Updates(r.body)) > 0
    /\ Take(p, r)
    /\ Touched(p, {"store", "store_error"})
    /\ Reply(p, 500, Error("Failed to update customer"))
    /\ UNCHANGED <<store, nextId, now, cache, redisUp, first>>

----------------------------------------------------------------------------
(* The requests the model draws from *)

\* two tenants, the name of one ending in the name of the other
TenantA == <<"1", ":", "b">>
TenantB == <<"b">>
Tenants == {TenantA, TenantB}

EmailAll == <<"A", "l", "l">>
EmailB == <<"b">>

Password == <<"p", "w">>

ListReq(t, s, l, o) == [op |-> "list", tenant_id |-> t, search |-> s, limit |-> l, offset |-> o]
GetReq(id, t) == [op |-> "get", id |-> id, tenant_id |-> t]
CreateReq(t, e, pw, fn, ph, ad) ==
    [op |-> "create", tenant_id |-> t, email |-> e, password |-> pw,
     full_name |-> fn, phone |-> ph, address |-> ad]
UpdateReq(id, t, body) == [op |-> "update", id |-> id, tenant_id |-> t, body |-> body]
StatsReq(t) == [op |-> "stats", tenant_id |-> t]

\* a create request with no optional field, and one with all of them
Bare(t, e) == CreateReq(t, e, Password, UNDEF, UNDEF, UNDEF)
Full(t, e) == CreateReq(t, e, Password, <<"B", "a", "l", "l">>, <<"5">>, <<"a">>)

\* the value an update supplies for each mutable field
NewValue == [full_name |-> <<"N">>, phone |-> <<"7">>, address |-> <<"x">>,
             loyalty_points |-> 5]
Mutable == {"full_name", "phone", "address", "loyalty_points"}

\* the body that supplies exactly the fields in S
Body(S) == [f \in S |-> NewValue[f]]

\* the requests that fail validation: each required input missing in turn
Invalid ==
    {CreateReq(UNDEF, EmailB, Password, UNDEF, UNDEF, UNDEF),
     CreateReq(TenantB, UNDEF, Password, UNDEF, UNDEF, UNDEF),
     CreateReq(TenantB, EmailB, UNDEF, UNDEF, UNDEF, UNDEF),
     ListReq(UNDEF, UNDEF, UNDEF, UNDEF),
     GetReq(<<"1">>, UNDEF),
     UpdateReq(<<"1">>, UNDEF, Body({"phone"})),
     UpdateReq(<<"1">>, TenantB, Body({}))}

\* Spec: every operation, for two tenants that hold the same email, with ids
\* as they come in the path: an id the store gives, and one holding a colon
Requests ==
    Invalid
    \cup {Bare(t, EmailB) : t \in Tenants}
    \cup {ListReq(t, UNDEF, UNDEF, UNDEF) : t \in Tenants}
    \cup {GetReq(<<"1">>, TenantA), GetReq(<<"1">>, TenantB), GetReq(<<"1", ":", "1">>, TenantB)}
    \cup {UpdateReq(<<"1">>, t, Body({"phone"})) : t \in Tenants}
    \cup {StatsReq(t) : t \in Tenants}

----------------------------------------------------------------------------
(* Specifications *)

\* SpecList: creates and lists for one tenant with customers that match the
\* search by email, by full name or not at all, and for a second tenant
ListRequests ==
    {Bare(TenantB, EmailAll), Bare(TenantB, EmailB), Full(TenantB, <<"c">>),
     Bare(TenantA, EmailB), ListReq(TenantA, UNDEF, UNDEF, UNDEF)}
    \cup {ListReq(TenantB, s, pg[1], pg[2]) :
             s \in {UNDEF, <<"a", "l", "l">>},
             pg \in {<<UNDEF, UNDEF>>, <<<<"1">>, <<"1">>>>}}

\* SpecFault: one request of each operation
FaultRequests ==
    {Bare(TenantB, EmailB), ListReq(TenantB, UNDEF, UNDEF, UNDEF), GetReq(<<"1">>, TenantB),
     UpdateReq(<<"1">>, TenantB, Body({"phone"})), StatsReq(TenantB)}

\* SpecTime: one customer, read and updated
TimeRequests ==
    {Bare(TenantB, EmailB), GetReq(<<"1">>, TenantB),
     UpdateReq(<<"1">>, TenantB, Body({"phone"}))}

\* SpecUpdate: customers with and without optional fields, and updates of
\* every subset of the mutable fields, of a missing id and of another tenant
UpdateRequests ==
    {Bare(TenantB, EmailB), Full(TenantB, EmailAll), Full(TenantA, EmailB),
     UpdateReq(<<"2">>, TenantB, Body({"phone"})),
     UpdateReq(<<"1">>, TenantA, Body({"phone"}))}
    \cup {UpdateReq(<<"1">>, TenantB, Body(S)) : S \in SUBSET Mutable}

\* the first step of a handler, for a request drawn from R
Begin(p, R) ==
    \E r \in R : \/ CreateBegin(p, r)
                 \/ ListBegin(p, r)
                 \/ GetBegin(p, r)
                 \/ UpdateBegin(p, r)
                 \/ StatsBegin(p, r)

\* the later steps of each handler
CreateSteps(p) == CreateInsert(p) \/ CreateDel(p)
ListSteps(p) == ListSelect(p) \/ ListCount(p) \/ ListSetex(p)
GetSteps(p) == GetSelect(p) \/ GetSetex(p)
UpdateSteps(p) == UpdateDelOne(p) \/ UpdateDelList(p)
StatsSteps(p) == StatsSelect(p) \/ StatsSetex(p)

Step(p) == CreateSteps(p) \/ ListSteps(p) \/ GetSteps(p) \/ UpdateSteps(p) \/ StatsSteps(p)

\* the service, its store and its cache, with no failure and no other writer
Next == \E p \in Procs : (nreq < MaxReq /\ Begin(p, Requests)) \/ Step(p)

Spec == Init /\ [][Next]_vars

\* creates and lists
NextList ==
    \E p \in Procs : \/ nreq < MaxReqList /\ Begin(p, ListRequests)
                     \/ CreateSteps(p) \/ ListSteps(p)

SpecList == Init /\ [][NextList]_vars

\* every operation, with redis failing and recovering at any time
NextFault ==
    \/ \E p \in Procs : (nreq < MaxReqFault /\ Begin(p, FaultRequests)) \/ Step(p)
    \/ RedisFails
    \/ RedisRecovers

SpecFault == Init /\ [][NextFault]_vars

\* reads and updates of one customer, while entries expire and the store is
\* written out-of-band
NextTime ==
    \/ \E p \in Procs : \/ nreq < MaxReqTime /\ Begin(p, TimeRequests)
                        \/ CreateSteps(p) \/ GetSteps(p) \/ UpdateSteps(p)
    \/ \E k \in 1..Len(store) : OutOfBand(k)
    \/ \E key \in DOMAIN cache : Expire(key)

SpecTime == Init /\ [][NextTime]_vars

\* creates and updates
NextUpdate ==
    \E p \in Procs : \/ nreq < MaxReqUpdate /\ Begin(p, UpdateRequests)
                     \/ CreateSteps(p) \/ UpdateSteps(p)

SpecUpdate == Init /\ [][NextUpdate]_vars

----------------------------------------------------------------------------
(* Properties *)

Done(p) == pc[p] = "done"

\* the tenant that owns the stored customer with this id (ids are the store's)
OwnedBy(id, tenant_id) ==
    \A k \in 1..Len(store) : store[k].id = id => store[k].tenant_id = tenant_id

\* C2: tenant isolation. A successful response to a list, get-one or stats
\* request scoped to a tenant holds no customer of another tenant: every row
\* of a list or get-one response is a row of the request's tenant, and a stats
\* response is the aggregate of the tenant's own rows as the store once held
\* them (rows are only added, and Spec's updates leave loyalty_points alone).
C2_TenantIsolation ==
    \A p \in Procs :
        Done(p) /\ resp[p].status = 200 =>
            CASE req[p].op = "get" -> OwnedBy(resp[p].body.id, req[p].tenant_id)
              [] req[p].op = "list" ->
                    \A i \in 1..Len(resp[p].body.customers) :
                        OwnedBy(resp[p].body.customers[i].id, req[p].tenant_id)
              [] req[p].op = "stats" ->
                    \E n \in 0..Len(store) :
                        resp[p].body = SelectStats(SubSeq(store, 1, n), req[p].tenant_id)
              [] OTHER -> TRUE

\* C3: (tenant_id, email) is unique among the customers in the store.
C3_UniqueEmailPerTenant ==
    \A i, j \in 1..Len(store) :
        i # j => <<store[i].tenant_id, store[i].email>> # <<store[j].tenant_id, store[j].email>>

\* the request that completed last was a successful create of (tenant_id, email)
JustCreated(tenant_id, email) ==
    /\ Quiet
    /\ LastDone.op = "create" /\ LastDone.status = 201
    /\ LastDone.tenant_id = tenant_id /\ LastDone.email = email

\* C4: uniqueness on sequential creates. A create request issued when the
\* request that completed last is a successful create of the same
\* (tenant_id, email) is answered 409 at once and leaves the store as it was.
C4_SecondCreateConflicts ==
    [][\A p \in Procs : \A r \in Requests :
          CreateBegin(p, r) /\ ~CreateInvalid(r) /\ JustCreated(r.tenant_id, r.email)
             => /\ pc'[p] = "done"
                /\ resp'[p].status = 409
                /\ store' = store]_vars

\* a second create of the same (tenant_id, email) has been answered 409 right
\* after the first was answered 201
C4_Witness ==
    \E p \in Procs :
        /\ Done(p) /\ req[p].op = "create" /\ resp[p].status = 409
        /\ after[p].op = "create" /\ after[p].status = 201
        /\ after[p].tenant_id = req[p].tenant_id /\ after[p].email = req[p].email

\* the requests the service must reject as invalid: no tenant_id on a list,
\* get-one or update; no tenant_id, email or password on a create; no mutable
\* field on an update
MustReject(r) ==
    CASE r.op = "create" -> r.tenant_id \in {UNDEF, <<>>} \/ r.email \in {UNDEF, <<>>}
                               \/ r.password \in {UNDEF, <<>>}
      [] r.op = "update" -> r.tenant_id \in {UNDEF, <<>>} \/ DOMAIN r.body \cap Mutable = {}
      [] r.op \in {"list", "get"} -> r.tenant_id \in {UNDEF, <<>>}
      [] OTHER -> FALSE

\* C9: validation errors touch nothing. A request that must be rejected is
\* answered 400 in the step that takes it up, having accessed neither the
\* store nor the cache, and the store and the cache are as they were.
C9_ValidationTouchesNothing ==
    [][\A p \in Procs : \A r \in Requests :
          Begin(p, {r}) /\ MustReject(r)
             => /\ pc'[p] = "done"
                /\ resp'[p].status = 400
                /\ acc'[p] = {}
                /\ store' = store /\ cache' = cache /\ now' = now]_vars

\* an invalid request has been answered 400 while the store held a customer
\* and the cache held an entry
C9_Witness ==
    \E p \in Procs :
        /\ Done(p) /\ resp[p].status = 400 /\ MustReject(req[p])
        /\ Len(store) > 0 /\ DOMAIN cache # {}

\* the response the list handler computes from the rows of a store
ListResult(rows, r) ==
    LET limit == ParseInt(OrDefault(r.limit, DefaultLimit))
        offset == ParseInt(OrDefault(r.offset, DefaultOffset))
    IN [customers |-> SelectList(rows, r.tenant_id, r.search, limit.val, offset.val),
        total |-> SelectCount(rows, r.tenant_id, r.search),
        limit |-> limit, offset |-> offset]

\* C1: write invalidation. A list request for a tenant that is issued right
\* after a create for that tenant was answered 201, and that runs with no
\* other request, is answered with the result of the store as it is after
\* the create.
C1_ListReflectsCreate ==
    \A p \in Procs :
        /\ Done(p) /\ req[p].op = "list" /\ resp[p].status = 200
        /\ alone[p]
        /\ after[p].op = "create" /\ after[p].status = 201
        /\ after[p].tenant_id = req[p].tenant_id
        => resp[p].body = ListResult(store, req[p])

RECURSIVE LowerStr(_)
LowerStr(s) == IF s = <<>> THEN <<>> ELSE <<Lower(Head(s))>> \o LowerStr(Tail(s))

\* text contains sub, case-insensitively
Contains(text, sub) ==
    \E i \in 1..(Len(text) - Len(sub) + 1) :
        SubSeq(LowerStr(text), i, i + Len(sub) - 1) = LowerStr(sub)

\* the ids of the page a search must return: the customers of the tenant
\* among rows whose email or full name contains the search string, newest
\* first, cut to the page
SearchPage(rows, r) ==
    LET Test(row) == /\ row.tenant_id = r.tenant_id
                     /\ \/ Contains(row.email, r.search)
                        \/ row.full_name # NULL /\ Contains(row.full_name, r.search)
        hits == NewestFirst(SelectSeq(rows, Test))
        page == Page(hits, ParseInt(OrDefault(r.limit, DefaultLimit)).val,
                     ParseInt(OrDefault(r.offset, DefaultOffset)).val)
    IN [k \in 1..Len(page) |-> page[k].id]

\* C10: search filter. A successful response to a list request with a search
\* string holds exactly the page of the tenant's customers whose email or full
\* name contains the string, as the store holds them or once held them (in
\* SpecList rows are only added, so an earlier store is a prefix of the store).
C10_SearchFilter ==
    \A p \in Procs :
        Done(p) /\ req[p].op = "list" /\ resp[p].status = 200 /\ ~Falsy(req[p].search)
        => \E n \in 0..Len(store) :
              [k \in 1..Len(resp[p].body.customers) |-> resp[p].body.customers[k].id]
                 = SearchPage(SubSeq(store, 1, n), req[p])

\* C5: cache unavailability never fails a request. A request during which a
\* redis call was rejected is not answered with a server error.
C5_CacheFailureTolerated ==
    \A p \in Procs :
        Done(p) /\ "cache_error" \in acc[p] => resp[p].status # 500

\* C6 as claimed: idempotent read-through. A get-one request issued while the
\* entry of its key is in the cache (populated, not expired, not invalidated)
\* is answered with the response that populated the entry.
C6_RepeatedGetIdentical ==
    [][\A p \in Procs : \A r \in TimeRequests :
          LET key == CustomerKey(r.id, r.tenant_id)
          IN GetBegin(p, r) /\ ~Falsy(r.tenant_id) /\ key \in DOMAIN first
                => /\ pc'[p] = "done"
                   /\ resp'[p] = [status |-> 200, body |-> first[key].val]]_vars

\* C6 as amended: the same, for an entry that no other get-one request, having
\* missed the cache earlier, has overwritten with its own result.
C6_RepeatedGetIdenticalUnlessOverwritten ==
    [][\A p \in Procs : \A r \in TimeRequests :
          LET key == CustomerKey(r.id, r.tenant_id)
          IN GetBegin(p, r) /\ ~Falsy(r.tenant_id) /\ key \in DOMAIN first
                /\ ~first[key].overwritten
                => /\ pc'[p] = "done"
                   /\ resp'[p] = [status |-> 200, body |-> first[key].val]]_vars

\* a get-one request has been answered from the cache alone with the response
\* that populated the entry, while the store holds the row changed out-of-band
C6_Witness ==
    \E p \in Procs :
        LET key == CustomerKey(req[p].id, req[p].tenant_id)
        IN /\ Done(p) /\ req[p].op = "get" /\ resp[p].status = 200
           /\ acc[p] = {"cache"}
           /\ key \in DOMAIN first /\ ~first[key].overwritten
           /\ resp[p].body = first[key].val
           /\ \E k \in 1..Len(store) :
                 /\ store[k].id = req[p].id /\ store[k].tenant_id = req[p].tenant_id
                 /\ store[k].phone = OutOfBandPhone
                 /\ resp[p].body.phone # OutOfBandPhone

\* C7 as claimed: an update was answered 200 last and no request is in
\* flight; then the cache holds no entry under the customer's key.
C7_UpdateLeavesNoEntry ==
    \A p \in Procs :
        /\ Done(p) /\ req[p].op = "update" /\ resp[p].status = 200
        /\ lastp = p /\ Quiet
        => CustomerKey(req[p].id, req[p].tenant_id) \notin DOMAIN cache

\* C7 as amended: an update that ran with no other request in flight from its
\* start to its end was answered 200, and no request began since; then the
\* cache holds no entry under the customer's key.
C7_UpdateAloneLeavesNoEntry ==
    \A p \in Procs :
        /\ Done(p) /\ req[p].op = "update" /\ resp[p].status = 200
        /\ alone[p]
        => CustomerKey(req[p].id, req[p].tenant_id) \notin DOMAIN cache

\* an update that ran alone has been answered 200 right after a get-one
\* request for the same customer was answered 200
C7_Witness ==
    \E p \in Procs :
        /\ Done(p) /\ req[p].op = "update" /\ resp[p].status = 200 /\ alone[p]
        /\ after[p].op = "get" /\ after[p].status = 200
        /\ after[p].id = req[p].id /\ after[p].tenant_id = req[p].tenant_id

\* the columns of a customer
Columns == {"id", "tenant_id", "email", "password_hash", "full_name", "phone",
            "address", "loyalty_points", "created_at", "updated_at"}

\* the value the store holds for a supplied field
Supplied(body, f) == IF f = "address" THEN <<"{">> \o body[f] \o <<"}">> ELSE body[f]

\* C8: partial update. A valid update changes, in the row of its id and
\* tenant, exactly the supplied fields to the supplied values and refreshes
\* updated_at; every other field of that row and every other row is unchanged.
C8_PartialUpdate ==
    [][\A p \in Procs : \A r \in UpdateRequests :
          UpdateBegin(p, r) /\ ~MustReject(r)
             => /\ Len(store') = Len(store)
                /\ \A k \in 1..Len(store) :
                      IF store[k].id = r.id /\ store[k].tenant_id = r.tenant_id
                      THEN /\ \A f \in DOMAIN r.body : store'[k][f] = Supplied(r.body, f)
                           /\ \A f \in Columns \ (DOMAIN r.body \cup {"updated_at"}) :
                                 store'[k][f] = store[k][f]
                           /\ store'[k].updated_at = now
                           /\ store'[k].updated_at > store[k].updated_at
                      ELSE store'[k] = store[k]]_vars

\* only the phone of a customer created with all optional fields has been
\* updated, while the store holds another customer
C8_Witness ==
    \E p \in Procs :
        /\ req[p].op = "update" /\ DOMAIN req[p].body = {"phone"}
        /\ Done(p) /\ resp[p].status = 200
        /\ Len(store) > 1
        /\ \E k \in 1..Len(store) :
              /\ store[k].id = req[p].id /\ store[k].tenant_id = req[p].tenant_id
              /\ store[k].phone = NewValue.phone
              /\ store[k].full_name = <<"B", "a", "l", "l">>
              /\ store[k].updated_at > store[k].created_at

----------------------------------------------------------------------------
(* Pagination *)

MaxReqPage == 3

\* SpecPage: one tenant's customers, listed with limit 10 from each offset,
\* with the defaults, and with a limit or an offset that is negative or not
\* a number
PageRequests ==
    {Bare(TenantB, EmailB), Bare(TenantB, EmailAll)}
    \cup {ListReq(TenantB, UNDEF, pg[1], pg[2]) :
             pg \in {<<UNDEF, UNDEF>>,
                     <<<<"1", "0">>, <<"0">>>>, <<<<"1", "0">>, <<"1">>>>,
                     <<<<"1", "0">>, <<"2">>>>,
                     <<<<"-", "1">>, UNDEF>>, <<UNDEF, <<"-", "1">>>>,
                     <<<<"x">>, UNDEF>>, <<UNDEF, <<"x">>>>}}

\* creates and lists with every kind of paging parameter
NextPage ==
    \E p \in Procs : \/ nreq < MaxReqPage /\ Begin(p, PageRequests)
                     \/ CreateSteps(p) \/ ListSteps(p)

SpecPage == Init /\ [][NextPage]_vars

\* C11: pagination boundary. A list request with limit=10 and offset=N that
\* ran with no other request, for a tenant whose store holds N customers, is
\* answered 200 with an empty customers list and total=N.
C11_PaginationBoundary ==
    \A p \in Procs :
        /\ Done(p) /\ req[p].op = "list" /\ alone[p]
        /\ req[p].search = UNDEF /\ req[p].limit = <<"1", "0">>
        /\ ParseInt(req[p].offset) = Num(SelectCount(store, req[p].tenant_id, UNDEF))
        => /\ resp[p].status = 200
           /\ resp[p].body.customers = <<>>
           /\ resp[p].body.total = SelectCount(store, req[p].tenant_id, UNDEF)

\* a number that may be passed as LIMIT or OFFSET: an integer that is not negative
NonNegative(n) == ~n.nan /\ n.val >= 0

\* C12: pagination parameters are clamped. The LIMIT and OFFSET values the
\* list handler passes to the store are non-negative integers, 50 and 0 when
\* the parameter is absent, the store accepts them, and the same values are
\* those of the response.
C12_PagingClamped ==
    [][\A p \in Procs :
          ListSelect(p)
             => LET limit == ParseInt(OrDefault(req[p].limit, DefaultLimit))
                    offset == ParseInt(OrDefault(req[p].offset, DefaultOffset))
                IN /\ NonNegative(limit) /\ NonNegative(offset)
                   /\ req[p].limit = UNDEF => limit = Num(50)
                   /\ req[p].offset = UNDEF => offset = Num(0)
                   /\ pc'[p] = "list_count"
                   /\ loc'[p].limit = limit /\ loc'[p].offset = offset]_vars

\* C15: count and list stay in lockstep. A list response computed from the
\* store holds the page and the count of one state of the store (in SpecPage
\* rows are only added, so a state of the store is a prefix of the store);
\* with offset 0 and a total within the limit it holds as many customers as
\* its total.
C15_CountMatchesPage ==
    \A p \in Procs :
        Done(p) /\ req[p].op = "list" /\ resp[p].status = 200 /\ "store" \in acc[p]
        => /\ \E n \in 0..Len(store) :
                 resp[p].body = ListResult(SubSeq(store, 1, n), req[p])
           /\ resp[p].body.offset = Num(0) /\ resp[p].body.total <= resp[p].body.limit.val
                 => Len(resp[p].body.customers) = resp[p].body.total

----------------------------------------------------------------------------
(* Loyalty points *)

MaxReqPoints == 3

\* SpecPoints: two customers, and updates of the loyalty points of the first
\* to a positive value, to zero and to a negative value
PointsRequests ==
    {Bare(TenantB, EmailB), Full(TenantB, EmailAll)}
    \cup {UpdateReq(<<"1">>, TenantB, [loyalty_points |-> n]) : n \in {5, 0, -5}}
    \cup {UpdateReq(<<"1">>, TenantB, [phone |-> <<"7">>, loyalty_points |-> -1])}

\* creates and updates of loyalty points
NextPoints ==
    \E p \in Procs : \/ nreq < MaxReqPoints /\ Begin(p, PointsRequests)
                     \/ CreateSteps(p) \/ UpdateSteps(p)

SpecPoints == Init /\ [][NextPoints]_vars

\* C13: the loyalty_points of every customer in the store is never negative.
C13_LoyaltyPointsNeverNegative ==
    \A k \in 1..Len(store) : store[k].loyalty_points >= 0

----------------------------------------------------------------------------
(* Invalidation of the list pages *)

\* the keys of the list pages of a tenant that the requests of Spec cache
ListKeysOf(tenant_id) ==
    {ListKey(r.tenant_id, r.search, r.limit, r.offset) :
        r \in {q \in Requests : q.op = "list" /\ q.tenant_id = tenant_id}}

\* C14: list-prefix invalidation. When a create or an update for a tenant was
\* answered with success last and no request is in flight, the cache holds no
\* list page of that tenant.
C14_WriteRemovesListPages ==
    \A p \in Procs :
        /\ Done(p) /\ lastp = p /\ Quiet
        /\ \/ req[p].op = "create" /\ resp[p].status = 201
           \/ req[p].op = "update" /\ resp[p].status = 200
        => ListKeysOf(req[p].tenant_id) \cap DOMAIN cache = {}

----------------------------------------------------------------------------
(* The order of a write and its invalidation *)

MaxReqWrite == 3

\* SpecWrite: one customer, read, updated, and updated under an id the store
\* does not hold, while the store may reject any statement of a write
WriteRequests ==
    {Bare(TenantB, EmailB), GetReq(<<"1">>, TenantB),
     UpdateReq(<<"1">>, TenantB, Body({"phone"})),
     UpdateReq(<<"2">>, TenantB, Body({"phone"}))}

\* the first step of a write whose first statement the store rejects
BeginFails(p, R) == \E r \in R : CreateCheckFails(p, r) \/ UpdateFails(p, r)

NextWrite ==
    \E p \in Procs : \/ nreq < MaxReqWrite /\ Begin(p, WriteRequests)
                     \/ nreq < MaxReqWrite /\ BeginFails(p, WriteRequests)
                     \/ CreateInsertFails(p)
                     \/ CreateSteps(p) \/ GetSteps(p) \/ UpdateSteps(p)

SpecWrite == Init /\ [][NextWrite]_vars

\* a step of the write handler of p that issues a cache invalidation
Invalidation(p) == CreateDel(p) \/ UpdateDelOne(p) \/ UpdateDelList(p)

\* a step of the write handler of p that issues a statement to the store
Statement(p) ==
    \/ \E r \in WriteRequests : \/ CreateBegin(p, r) \/ CreateCheckFails(p, r)
                                \/ UpdateBegin(p, r) \/ UpdateFails(p, r)
    \/ CreateInsert(p)
    \/ CreateInsertFails(p)

\* a completed write whose mutation did not take effect
NoEffect(p) ==
    /\ Done(p) /\ req[p].op \in {"create", "update"}
    /\ resp[p].status \in {404, 409} \/ "store_error" \in acc[p]

\* C16: write ordering. An invalidation is issued only by a request whose
\* statement has changed the store, and it leaves the store alone; a step that
\* issues a statement issues no invalidation, leaves the cache as it is and
\* counts as a mutation exactly when it changed the store; and a write
\* answered with a conflict, with not-found or after a rejected statement has
\* changed nothing and has not accessed the cache.
C16_WriteOrdering ==
    /\ [][\A p \in Procs :
             /\ Invalidation(p) => "mutation" \in acc[p] /\ store' = store
             /\ Statement(p) => /\ cache' = cache
                                /\ "cache" \notin acc'[p]
                                /\ "mutation" \in acc'[p] <=> store' # store]_vars
    /\ [](\A p \in Procs : NoEffect(p) => acc[p] \cap {"mutation", "cache"} = {})

\* an update was rejected by the store while the cache held the entry of its
\* customer, and the entry is still there
C16_Witness ==
    \E p \in Procs :
        /\ NoEffect(p) /\ req[p].op = "update" /\ resp[p].status = 500
        /\ after[p].op = "get" /\ after[p].status = 200
        /\ CustomerKey(req[p].id, req[p].tenant_id) \in DOMAIN cache

----------------------------------------------------------------------------
(* Staleness and expiry *)

MaxReqStale == 3

\* SpecStale: one customer, created, updated and read by each read operation,
\* while entries expire; every handler that has begun goes on, and the
\* time-to-live of every entry runs out unless the entry goes before
StaleReads ==
    {GetReq(<<"1">>, TenantB), ListReq(TenantB, UNDEF, UNDEF, UNDEF), StatsReq(TenantB)}

StaleRequests ==
    {Bare(TenantB, EmailB), UpdateReq(<<"1">>, TenantB, Body({"phone"}))} \cup StaleReads

\* the cache key of a read request
KeyOf(r) ==
    CASE r.op = "list" -> ListKey(r.tenant_id, r.search, r.limit, r.offset)
      [] r.op = "get" -> CustomerKey(r.id, r.tenant_id)
      [] r.op = "stats" -> StatsKey(r.tenant_id)

NextStale ==
    \/ \E p \in Procs : (nreq < MaxReqStale /\ Begin(p, StaleRequests)) \/ Step(p)
    \/ \E key \in DOMAIN cache : Expire(key)

SpecStale ==
    /\ Init /\ [][NextStale]_vars
    /\ \A p \in Procs : WF_vars(Step(p))
    /\ \A r \in StaleReads : WF_vars(Expire(KeyOf(r)))

\* the store's current content for a read request that finds it
Current(r) ==
    CASE r.op = "list" -> ListResult(store, r)
      [] r.op = "get" -> SelectCustomer(store, r.id, r.tenant_id)[1]
      [] r.op = "stats" -> SelectStats(store, r.tenant_id)

\* the cache holds for r a snapshot that is not the store's current content
Stale(r) ==
    /\ KeyOf(r) \in DOMAIN cache
    /\ \/ r.op = "get" /\ Len(SelectCustomer(store, r.id, r.tenant_id)) = 0
       \/ cache[KeyOf(r)].val # Current(r)

\* the time-to-live the claim gives for each operation
ClaimedTTL(r) == CASE r.op = "list" -> 60 [] r.op = "get" -> 300 [] r.op = "stats" -> 120

\* C17: bounded staleness. Every entry of the cache is the entry of a read
\* request and carries its operation's time-to-live (60, 300, 120); a stale
\* snapshot does not stay: it expires or is invalidated; and once the
\* requests have stopped, from some time on no read request finds a stale
\* snapshot in the cache, so it is answered with the store's current content.
C17_BoundedStaleness ==
    /\ [](\A key \in DOMAIN cache :
             \E r \in StaleReads : KeyOf(r) = key /\ cache[key].ttl = ClaimedTTL(r))
    /\ \A r \in StaleReads : Stale(r) ~> ~Stale(r)
    /\ <>[](\A r \in StaleReads : ~Stale(r))

\* an update was answered 200 last, no request is in flight, and the cache
\* holds under the customer's key the row as it was before the update: the
\* snapshot of a get-one that read the store before the UPDATE and wrote the
\* cache after the update's invalidation
C17_Witness ==
    \E p \in Procs :
        /\ Quiet /\ lastp = p
        /\ req[p].op = "update" /\ resp[p].status = 200
        /\ Stale(GetReq(req[p].id, req[p].tenant_id))
        /\ cache[CustomerKey(req[p].id, req[p].tenant_id)].val.phone # NewValue.phone

----------------------------------------------------------------------------
(* The scope of an update *)

\* no row of the store has this id under this tenant
NoSuchCustomer(id, tenant_id) ==
    \A k \in 1..Len(store) : ~(store[k].id = id /\ store[k].tenant_id = tenant_id)

\* C18: updates are tenant-scoped. A valid update of an (id, tenant_id) that
\* no row of the store has is answered 404 in the step of its UPDATE, and
\* the store and the cache are as they were.
C18_UpdateTenantScoped ==
    [][\A p \in Procs : \A r \in Requests :
          UpdateBegin(p, r) /\ ~MustReject(r) /\ NoSuchCustomer(r.id, r.tenant_id)
             => /\ pc'[p] = "done"
                /\ resp'[p].status = 404
                /\ store' = store
                /\ cache' = cache]_vars

\* an update under the id of another tenant's customer has been answered 404
\* while the cache holds that customer's entry
C18_Witness ==
    \E p \in Procs :
        /\ Done(p) /\ req[p].op = "update" /\ resp[p].status = 404
        /\ \E k \in 1..Len(store) :
              /\ store[k].id = req[p].id /\ store[k].tenant_id # req[p].tenant_id
              /\ store[k].phone = NULL /\ store[k].updated_at = store[k].created_at
              /\ CustomerKey(store[k].id, store[k].tenant_id) \in DOMAIN cache

----------------------------------------------------------------------------
(* The cache keys *)

\* a read request that passes validation
ValidRead(r) ==
    \/ r.op \in {"list", "get"} /\ ~Falsy(r.tenant_id)
    \/ r.op = "stats"

\* two read requests are the same operation with the same normalized inputs:
\* an absent or empty search is no search, an absent limit or offset its default
SameRead(a, b) ==
    /\ a.op = b.op
    /\ a.tenant_id = b.tenant_id
    /\ a.op = "get" => a.id = b.id
    /\ a.op = "list" =>
          /\ Falsy(a.search) = Falsy(b.search)
          /\ ~Falsy(a.search) => a.search = b.search
          /\ OrDefault(a.limit, DefaultLimit) = OrDefault(b.limit, DefaultLimit)
          /\ OrDefault(a.offset, DefaultOffset) = OrDefault(b.offset, DefaultOffset)

\* C19: cache keys are injective. Two read requests the service has taken up
\* have the same cache key only if they are the same operation with the same
\* normalized inputs.
C19_KeysInjective ==
    \A p, q \in Procs :
        /\ ValidRead(req[p]) /\ ValidRead(req[q])
        /\ KeyOf(req[p]) = KeyOf(req[q])
        => SameRead(req[p], req[q])

----------------------------------------------------------------------------
(* What the cache holds *)

\* the positions at which a read handler is about to write the cache
SetexLabels == {"list_setex", "get_setex", "stats_setex"}

\* the value the read handler of p is about to write
Snapshot(l) == IF l.at = "list" THEN l.response ELSE l.row

\* C20: the cache only holds derived snapshots. An entry is written or
\* replaced only by a read handler, under the key of its request, with the
\* value it holds; that value is what its statements returned from the store
\* (the page of its SELECT and the count of its SELECT COUNT(*), the row of
\* its SELECT by id and tenant, the aggregate of its tenant); and a get-one
\* whose SELECT finds no row ends with 404 and writes nothing.
C20_CacheHoldsSnapshots ==
    [][/\ \A key \in DOMAIN cache' :
             key \notin DOMAIN cache \/ cache'[key] # cache[key]
                => \E p \in Procs : /\ pc[p] \in SetexLabels /\ pc'[p] = "done"
                                    /\ ValidRead(req[p]) /\ KeyOf(req[p]) = key
                                    /\ cache'[key].val = Snapshot(loc[p])
                                    /\ resp'[p].body = Snapshot(loc[p])
       /\ \A p \in Procs :
             LET r == req[p]
             IN /\ pc'[p] = "list_count" /\ pc[p] # "list_count"
                   => loc'[p].rows = ListResult(store, r).customers
                /\ pc'[p] = "list_setex" /\ pc[p] # "list_setex"
                   => /\ loc'[p].response.customers = loc[p].rows
                      /\ loc'[p].response.total = SelectCount(store, r.tenant_id, r.search)
                /\ pc'[p] = "get_setex" /\ pc[p] # "get_setex"
                   => \E k \in 1..Len(store) :
                         /\ store[k].id = r.id /\ store[k].tenant_id = r.tenant_id
                         /\ loc'[p].row = CustomerColumns(store[k])
                /\ pc'[p] = "stats_setex" /\ pc[p] # "stats_setex"
                   => loc'[p].row = SelectStats(store, r.tenant_id)
                /\ GetSelect(p) /\ NoSuchCustomer(r.id, r.tenant_id)
                   => /\ pc'[p] = "done" /\ resp'[p].status = 404
                      /\ cache' = cache]_vars

\* a get-one that found no row has been answered 404 and the cache holds no
\* entry under its key, while it holds the entry of another read
C20_Witness ==
    \E p \in Procs :
        /\ Done(p) /\ req[p].op = "get" /\ resp[p].status = 404
        /\ acc[p] = {"cache", "store"}
        /\ KeyOf(req[p]) \notin DOMAIN cache
        /\ DOMAIN cache # {}

=============================================================================
